---- MODULE Spec2Model ----
(***************************************************************************)
(* HAL cost estimation backend: the cost calculation service               *)
(* (backend/services/cost_calculation_service.py), the MHR table it reads  *)
(* (backend/models/models.py, backend/routes/mhr.py) and the two           *)
(* estimation handlers (backend/routes/cost_estimation.py).                *)
(*                                                                         *)
(* Representation.                                                         *)
(*   - Python str is a TLA+ string; characters are read with SubSeq.       *)
(*   - Optional[x] is a sequence of length 0 (None) or 1 (<<x>>).          *)
(*   - Money is fixed point.  Inputs of calculate_costs: man_hours in      *)
(*     hundredths of an hour, rates in whole currency units.  Unrounded    *)
(*     intermediate values are in 1/10000 of a currency unit, returned     *)
(*     (rounded) values in cents.                                          *)
(*   - Dimensions are whole millimetres.                                   *)
(*   - A call is recorded in call (function and arguments) and ret (what   *)
(*     it returned or raised); pc is "called" before the function has run  *)
(*     and "done" after.                                                   *)
(*   - faults is the set of queries that fail on the database session of   *)
(*     the call, queries the queries the call has issued, in order.        *)
(*   - For the HTTP handlers pc, call and ret are functions of the request *)
(*     being served, and locals holds the local variables of each handler  *)
(*     between its two reads of the database.                              *)
(***************************************************************************)
EXTENDS Integers, Sequences, FiniteSets, TLC

VARIABLES mhr, pc, call, ret, faults, queries, locals

vars == <<mhr, pc, call, ret, faults, queries, locals>>

None == <<>>
Some(x) == <<x>>

Min2(a, b) == IF a <= b THEN a ELSE b
Max2(a, b) == IF a >= b THEN a ELSE b

(***************************************************************************)
(* str methods used by the service.                                        *)
(***************************************************************************)
Chr(s, i) == SubSeq(s, i, i)

UpperChars == "ABCDEFGHIJKLMNOPQRSTUVWXYZ"
LowerChars == "abcdefghijklmnopqrstuvwxyz"

LowerChr(c) ==
    IF \E i \in 1..Len(UpperChars) : Chr(UpperChars, i) = c
    THEN Chr(LowerChars, CHOOSE i \in 1..Len(UpperChars) : Chr(UpperChars, i) = c)
    ELSE c

RECURSIVE Lower(_)
Lower(s) == IF s = "" THEN "" ELSE LowerChr(Head(s)) \o Lower(Tail(s))

UpperChr(c) ==
    IF \E i \in 1..Len(LowerChars) : Chr(LowerChars, i) = c
    THEN Chr(UpperChars, CHOOSE i \in 1..Len(LowerChars) : Chr(LowerChars, i) = c)
    ELSE c

RECURSIVE Upper(_)
Upper(s) == IF s = "" THEN "" ELSE UpperChr(Head(s)) \o Upper(Tail(s))

RECURSIVE LStrip(_)
LStrip(s) == IF s # "" /\ Head(s) = " " THEN LStrip(Tail(s)) ELSE s

RECURSIVE RStrip(_)
RStrip(s) ==
    IF s # "" /\ Chr(s, Len(s)) = " " THEN RStrip(SubSeq(s, 1, Len(s) - 1)) ELSE s

Strip(s) == RStrip(LStrip(s))

\* sub in s
Contains(sub, s) ==
    \E i \in 1..(Len(s) - Len(sub) + 1) : SubSeq(s, i, i + Len(sub) - 1) = sub

EndsWith(s, suffix) ==
    Len(s) >= Len(suffix) /\ SubSeq(s, Len(s) - Len(suffix) + 1, Len(s)) = suffix

RECURSIVE Replace(_, _, _)
\* s.replace(old, new) for a one-character old
Replace(s, old, new) ==
    IF s = "" THEN ""
    ELSE (IF Head(s) = old THEN new ELSE Head(s)) \o Replace(Tail(s), old, new)

RECURSIVE CollapseSpaces(_)
\* " ".join(s.split())
CollapseSpaces(s) ==
    LET t == LStrip(s) IN
    IF t = "" THEN ""
    ELSE LET rest == CollapseSpaces(Tail(t)) IN
         IF Len(t) >= 2 /\ Chr(t, 2) = " "
         THEN IF rest = "" THEN Head(t) ELSE Head(t) \o " " \o rest
         ELSE Head(t) \o rest

(***************************************************************************)
(* Calculator: calculate_costs.                                            *)
(***************************************************************************)
CentsPerUnit == 100

\* round(x, 2) of a non-negative x given in 1/10000: the nearest cent.  The
\* code rounds a binary float, so at an exact half cent either neighbour
\* can come out.
Round2(x) ==
    LET q == x \div CentsPerUnit
        r == x % CentsPerUnit
    IN  IF 2 * r < CentsPerUnit THEN {q}
        ELSE IF 2 * r > CentsPerUnit THEN {q + 1}
        ELSE {q, q + 1}

\* The docstring's overheads (OH = 100% of C x A) in place of the code's.
CostsExactDocstring(man_hours, machine_hour_rate, wage_rate, quantity) ==
    LET basic_cost == man_hours * (machine_hour_rate + wage_rate) * CentsPerUnit
        overheads == wage_rate * man_hours * CentsPerUnit
        profit == (basic_cost + overheads) \div 10
        packing_forwarding == (2 * basic_cost) \div 100
        unit_cost == basic_cost + overheads + profit + packing_forwarding
    IN  [basic_cost |-> basic_cost,
         overheads |-> overheads,
         profit |-> profit,
         packing_forwarding |-> packing_forwarding,
         unit_cost |-> unit_cost,
         total_cost |-> unit_cost * quantity,
         outsourcing_mhr |->
            (machine_hour_rate + 2 * wage_rate) * CentsPerUnit * CentsPerUnit]

\* The unrounded locals of calculate_costs, in 1/10000 of a currency unit
\* (man_hours is in hundredths of an hour, the rates in whole units).
CostsExact(man_hours, machine_hour_rate, wage_rate, quantity) ==
    LET basic_cost == man_hours * (machine_hour_rate + wage_rate) * CentsPerUnit
        overheads == wage_rate * CentsPerUnit * CentsPerUnit
        profit == (basic_cost + overheads) \div 10
        packing_forwarding == (2 * basic_cost) \div 100
        unit_cost == basic_cost + overheads + profit + packing_forwarding
    IN  [basic_cost |-> basic_cost,
         overheads |-> overheads,
         profit |-> profit,
         packing_forwarding |-> packing_forwarding,
         unit_cost |-> unit_cost,
         total_cost |-> unit_cost * quantity,
         outsourcing_mhr |->
            (machine_hour_rate + 2 * wage_rate) * CentsPerUnit * CentsPerUnit]

\* The dicts calculate_costs can return (money in cents, man-hours in
\* hundredths of an hour).
calculate_costs(man_hours, machine_hour_rate, wage_rate, quantity) ==
    LET x == CostsExact(man_hours, machine_hour_rate, wage_rate, quantity) IN
    [man_hours_per_unit : {man_hours},
     machine_hour_rate : {machine_hour_rate * CentsPerUnit},
     wage_rate : {wage_rate * CentsPerUnit},
     basic_cost_per_unit : Round2(x.basic_cost),
     overheads_per_unit : Round2(x.overheads),
     profit_per_unit : Round2(x.profit),
     packing_forwarding_per_unit : Round2(x.packing_forwarding),
     unit_cost : Round2(x.unit_cost),
     total_cost : Round2(x.total_cost),
     outsourcing_mhr : Round2(x.outsourcing_mhr)]

\* Inputs of the calculator.
MaxQuantity == 3
ManHoursGrid == {0, 1, 15, 25, 50, 100, 200}
RateGrid == {0, 1, 75, 100, 250}
WageGrid == {0, 1, 75, 100}

CalcArgs ==
    [man_hours : ManHoursGrid, machine_hour_rate : RateGrid,
     wage_rate : WageGrid, quantity : 0..MaxQuantity]

NoRet == [kind |-> "none"]

InitCalc ==
    /\ mhr = <<>>
    /\ pc = "called"
    /\ call \in [fn : {"calculate_costs"}, args : CalcArgs]
    /\ ret = NoRet
    /\ faults = {}
    /\ queries = <<>>
    /\ locals = <<>>

CalculateCosts ==
    /\ pc = "called"
    /\ call.fn = "calculate_costs"
    /\ \E d \in calculate_costs(call.args.man_hours, call.args.machine_hour_rate,
                                call.args.wage_rate, call.args.quantity) :
          ret' = [kind |-> "ok", val |-> d]
    /\ pc' = "done"
    /\ UNCHANGED <<mhr, call, faults, queries, locals>>

NextCalc == CalculateCosts

SpecCalc == InitCalc /\ [][NextCalc]_vars

(***************************************************************************)
(* Classifier: determine_duty_category.                                    *)
(***************************************************************************)
order == <<"light", "medium", "heavy">>

\* _bump(d, steps); order.index is 0-based in the code, 1-based here.
Bump(d, steps) ==
    LET idx == IF \E i \in 1..Len(order) : order[i] = d
               THEN CHOOSE i \in 1..Len(order) : order[i] = d
               ELSE 1
    IN  order[Min2(Len(order), Max2(1, idx + steps))]

HasKeys(dimensions, keys) == keys \subseteq DOMAIN dimensions

RectLightMax == 750
RectMediumMax == 1500
RoundLightDiameter == 100
RoundLightLength == 300
RoundMediumDiameter == 300
RoundMediumLength == 1200

\* The rectangular thresholds with < in place of <=.
RectBaseStrict(dimensions) ==
    LET max_dim == Max2(dimensions["length"],
                        Max2(dimensions["breadth"], dimensions["height"]))
    IN  IF max_dim < RectLightMax THEN "light"
        ELSE IF max_dim < RectMediumMax THEN "medium"
        ELSE "heavy"

\* Lines 56-70: base of a rectangular part.
RectBase(dimensions) ==
    LET max_dim == Max2(dimensions["length"],
                        Max2(dimensions["breadth"], dimensions["height"]))
    IN  IF max_dim <= RectLightMax THEN "light"
        ELSE IF max_dim <= RectMediumMax THEN "medium"
        ELSE "heavy"

\* The round thresholds with the medium and heavy results exchanged.
RoundBaseSwapped(dimensions) ==
    LET diameter == dimensions["diameter"]
        length == dimensions["length"]
    IN  IF diameter <= RoundLightDiameter /\ length <= RoundLightLength THEN "light"
        ELSE IF diameter <= RoundMediumDiameter /\ length <= RoundMediumLength
             THEN "heavy"
        ELSE "medium"

\* Lines 73-85: base of a round part.
RoundBase(dimensions) ==
    LET diameter == dimensions["diameter"]
        length == dimensions["length"]
    IN  IF diameter <= RoundLightDiameter /\ length <= RoundLightLength THEN "light"
        ELSE IF diameter <= RoundMediumDiameter /\ length <= RoundMediumLength
             THEN "medium"
        ELSE "heavy"

\* The geometric base, None when neither branch applies.
GeometryBase(shape, dimensions) ==
    IF shape = "rectangular" /\ HasKeys(dimensions, {"length", "breadth", "height"})
    THEN Some(RectBase(dimensions))
    ELSE IF shape = "round" /\ HasKeys(dimensions, {"diameter", "length"})
    THEN Some(RoundBase(dimensions))
    ELSE None

\* material_factor and operation_factor, times 10.
material_factor(mat) ==
    CASE mat = "aluminium" -> 10
      [] mat = "steel" -> 30
      [] mat = "titanium" -> 17
      [] OTHER -> 10

operation_factor(op) ==
    CASE op = "turning" -> 10
      [] op = "milling" -> 15
      [] op = "drilling" -> 8
      [] op = "grinding" -> 12
      [] op = "boring" -> 13
      [] op = "heat_treatment" -> 20
      [] op = "welding" -> 18
      [] op = "surface_treatment" -> 10
      [] OTHER -> 10

ScoreLight == 5
ScoreMedium == 20

\* a * b * c * f < limit * 10^8, for positive integers, without leaving the
\* 32-bit range: score = (volume / 1000000) * material_factor * operation_factor
\* with both factors times 10.
ScoreBelow(a, b, c, f, limit) ==
    LET k == (limit * 100000000 - 1) \div f   \* a * b * c <= k
    IN  a * b <= k \div c

\* Lines 87-118: the volume heuristic, taken when the geometric base is None.
\* A missing key raises KeyError.
VolumeBase(shape, dimensions, mat, op) ==
    LET f == material_factor(mat) * operation_factor(op) IN
    IF shape = "round"
    THEN IF HasKeys(dimensions, {"diameter", "length"})
         THEN \* volume = 3.14159 * (diameter/2)**2 * length
              LET d == dimensions["diameter"]
                  l == dimensions["length"]
                  v == (314159 * d * d * l) \div 400000
              IN  IF v * f < ScoreLight * 100000000 THEN Some("light")
                  ELSE IF v * f < ScoreMedium * 100000000 THEN Some("medium")
                  ELSE Some("heavy")
         ELSE None
    ELSE IF HasKeys(dimensions, {"length", "breadth", "height"})
         THEN LET l == dimensions["length"]
                  b == dimensions["breadth"]
                  h == dimensions["height"]
              IN  IF ScoreBelow(l, b, h, f, ScoreLight) THEN Some("light")
                  ELSE IF ScoreBelow(l, b, h, f, ScoreMedium) THEN Some("medium")
                  ELSE Some("heavy")
         ELSE None

\* The material adjustment with the bump downwards (_bump(base, -1)).
MaterialAdjustDown(base, mat) ==
    IF mat \in {"steel", "titanium"}
    THEN LET b1 == Bump(base, 0 - 1)
         IN  IF mat = "titanium" /\ b1 = "medium" THEN Bump(b1, 1) ELSE b1
    ELSE base

\* The material adjustment with a bump for every base (_bump(base, 1)).
MaterialAdjustAlways(base, mat) ==
    IF mat \in {"steel", "titanium"}
    THEN LET b1 == Bump(base, 1)
         IN  IF mat = "titanium" /\ b1 = "medium" THEN Bump(b1, 1) ELSE b1
    ELSE base

\* Lines 120-124.
MaterialAdjust(base, mat) ==
    IF mat \in {"steel", "titanium"}
    THEN LET b1 == Bump(base, IF base = "light" THEN 1 ELSE 0)
         IN  IF mat = "titanium" /\ b1 = "medium" THEN Bump(b1, 1) ELSE b1
    ELSE base

\* The operation adjustment for heat_treatment alone.
OperationAdjustHeatOnly(base, op) ==
    IF op \in {"heat_treatment"} THEN Bump(base, 1) ELSE base

\* Lines 126-128.
OperationAdjust(base, op) ==
    IF op \in {"heat_treatment", "welding"} THEN Bump(base, 1) ELSE base

\* determine_duty_category after lines 48-49, on the normalised op and mat:
\* [kind |-> "ok", val |-> duty] or a KeyError.
DutyOf(shape, dimensions, mat, op) ==
    LET geo == GeometryBase(shape, dimensions)
        base == IF geo # None THEN geo ELSE VolumeBase(shape, dimensions, mat, op)
    IN  IF base = None
        THEN [kind |-> "KeyError"]
        ELSE [kind |-> "ok",
              val |-> OperationAdjust(MaterialAdjust(base[1], mat), op)]

determine_duty_category(shape, dimensions, material, operation) ==
    DutyOf(shape, dimensions, Lower(Strip(material)), Lower(Strip(operation)))

\* Inputs of the classifier: dimensions at and just above each threshold,
\* every subset of the four keys, shapes with and without a geometry branch.
MaxOver == 1
Over == 0..MaxOver
DimKeys == {"diameter", "length", "breadth", "height"}
DimGrid ==
    [diameter |-> {RoundLightDiameter + d : d \in Over}
                  \cup {RoundMediumDiameter + d : d \in Over},
     length |-> {RoundLightLength + d : d \in Over}
                \cup {RoundMediumLength + d : d \in Over}
                \cup {RectMediumMax + 1},
     breadth |-> {RoundLightDiameter, RectLightMax + 1, RectMediumMax + 1},
     height |-> {RoundLightDiameter, RectLightMax, RectMediumMax}]

Restrict(f, K) == [k \in K |-> f[k]]

DimDicts ==
    {Restrict(r, K) :
        r \in [diameter : DimGrid.diameter, length : DimGrid.length,
               breadth : DimGrid.breadth, height : DimGrid.height],
        K \in SUBSET DimKeys}

Shapes == {"rectangular", "round", "square"}
Materials == {"aluminium", "steel", "Titanium ", "brass"}
Operations == {"turning", "milling", "drilling", "heat_treatment", " Welding", "forging"}

DutyArgs ==
    [shape : Shapes, dimensions : DimDicts, material : Materials,
     operation : Operations]

InitDuty ==
    /\ mhr = <<>>
    /\ pc = "called"
    /\ call \in [fn : {"determine_duty_category"}, args : DutyArgs]
    /\ ret = NoRet
    /\ faults = {}
    /\ queries = <<>>
    /\ locals = <<>>

DetermineDutyCategory ==
    /\ pc = "called"
    /\ call.fn = "determine_duty_category"
    /\ ret' = determine_duty_category(call.args.shape, call.args.dimensions,
                                      call.args.material, call.args.operation)
    /\ pc' = "done"
    /\ UNCHANGED <<mhr, call, faults, queries, locals>>

NextDuty == DetermineDutyCategory

SpecDuty == InitDuty /\ [][NextDuty]_vars

(***************************************************************************)
(* Resolver: determine_machine_category and get_wage_rate.                 *)
(***************************************************************************)
\* determine_machine_category without the "precision" test.
CategoryCncOnly(machine_name) ==
    LET name_lower == Lower(machine_name) IN
    IF Contains("cnc", name_lower)
    THEN IF \/ Contains("5", name_lower) \/ Contains("five", name_lower)
            \/ Contains("5 axis", name_lower) \/ Contains("5-axis", name_lower)
         THEN "cnc_5axis"
         ELSE "cnc_3axis"
    ELSE IF Contains("spm", name_lower) \/ Contains("special", name_lower)
    THEN "spm"
    ELSE "conventional"

determine_machine_category(machine_name) ==
    LET name_lower == Lower(machine_name) IN
    IF Contains("cnc", name_lower) \/ Contains("precision", name_lower)
    THEN IF \/ Contains("5", name_lower) \/ Contains("five", name_lower)
            \/ Contains("5 axis", name_lower) \/ Contains("5-axis", name_lower)
         THEN "cnc_5axis"
         ELSE "cnc_3axis"
    ELSE IF Contains("spm", name_lower) \/ Contains("special", name_lower)
    THEN "spm"
    ELSE "conventional"

CONVENTIONAL_OPERATOR_MONTHLY_WAGE == 15000
CNC_OPERATOR_MONTHLY_WAGE == 20000
HOURS_PER_MONTH_FOR_WAGE == 200

\* get_wage_rate paying the CNC wage for the CNC categories only.
WageRateCncOnly(machine_name) ==
    LET category == determine_machine_category(machine_name)
        monthly == IF category \in {"cnc_3axis", "cnc_5axis"}
                   THEN CNC_OPERATOR_MONTHLY_WAGE
                   ELSE CONVENTIONAL_OPERATOR_MONTHLY_WAGE
    IN  monthly \div HOURS_PER_MONTH_FOR_WAGE

\* In whole currency units per hour.
get_wage_rate(machine_name) ==
    LET category == determine_machine_category(machine_name)
        monthly == IF category = "conventional"
                   THEN CONVENTIONAL_OPERATOR_MONTHLY_WAGE
                   ELSE CNC_OPERATOR_MONTHLY_WAGE
    IN  monthly \div HOURS_PER_MONTH_FOR_WAGE

\* The names select_machine gives (lines 156-187), by operation and category.
machine_names ==
    [turning |->
        [conventional |-> "Conventional Lathe",
         cnc_3axis |-> "CNC Lathe - 3 Axis",
         cnc_5axis |-> "CNC Lathe - 5 Axis",
         spm |-> "Special Purpose Lathe"],
     milling |->
        [conventional |-> "Conventional Milling Machine",
         cnc_3axis |-> "CNC Milling - 3 Axis",
         cnc_5axis |-> "CNC Milling - 5 Axis",
         spm |-> "Special Purpose Mill"],
     drilling |->
        [conventional |-> "Conventional Drill Press",
         cnc_3axis |-> "CNC Drilling Machine",
         cnc_5axis |-> "CNC Multi-Axis Drill",
         spm |-> "Special Purpose Drill"],
     grinding |->
        [conventional |-> "Conventional Grinder",
         cnc_3axis |-> "CNC Grinder",
         cnc_5axis |-> "CNC Precision Grinder",
         spm |-> "Special Purpose Grinder"],
     boring |->
        [conventional |-> "Conventional Boring Machine",
         cnc_3axis |-> "CNC Boring Machine",
         cnc_5axis |-> "CNC Horizontal Boring",
         spm |-> "Special Purpose Boring"]]

\* Inputs: the names of select_machine's table and names put together from
\* the words the category tests look for.
NamePrefixes == {"", "CNC ", "cnc-", "Precision ", "SPM ", "Special Purpose ", "Conventional "}
NameBodies == {"Lathe", "Milling Machine", "Grinder"}
NameSuffixes == {"", " - 3 Axis", " - 5 Axis", " 5-axis", " Five", " (CNC)"}

MachineNameInputs ==
    {machine_names[o][c] : o \in DOMAIN machine_names,
                           c \in {"conventional", "cnc_3axis", "cnc_5axis", "spm"}}
    \cup {p \o b \o x : p \in NamePrefixes, b \in NameBodies, x \in NameSuffixes}

InitMachine ==
    /\ mhr = <<>>
    /\ pc = "called"
    /\ call \in [fn : {"determine_machine_category", "get_wage_rate"},
                 args : [machine_name : MachineNameInputs]]
    /\ ret = NoRet
    /\ faults = {}
    /\ queries = <<>>
    /\ locals = <<>>

DetermineMachineCategory ==
    /\ pc = "called"
    /\ call.fn = "determine_machine_category"
    /\ ret' = [kind |-> "ok", val |-> determine_machine_category(call.args.machine_name)]
    /\ pc' = "done"
    /\ UNCHANGED <<mhr, call, faults, queries, locals>>

GetWageRate ==
    /\ pc = "called"
    /\ call.fn = "get_wage_rate"
    /\ ret' = [kind |-> "ok", val |-> get_wage_rate(call.args.machine_name)]
    /\ pc' = "done"
    /\ UNCHANGED <<mhr, call, faults, queries, locals>>

NextMachine == DetermineMachineCategory \/ GetWageRate

SpecMachine == InitMachine /\ [][NextMachine]_vars

(***************************************************************************)
(* Resolver: select_machine, get_machine_details and calculate_man_hours.  *)
(***************************************************************************)
Categories == {"conventional", "cnc_3axis", "cnc_5axis", "spm"}

\* The pair (machine_name, category).  machine_category is None or <<str>>;
\* an empty str is as good as None ("if machine_category:").
select_machine(operation, duty, material, machine_category) ==
    LET category ==
            IF machine_category # None /\ machine_category[1] # ""
            THEN machine_category[1]
            ELSE IF duty = "heavy" \/ material = "titanium" THEN "cnc_5axis"
            ELSE IF duty = "medium" THEN "cnc_3axis"
            ELSE "conventional"
        by_category == IF operation \in DOMAIN machine_names
                       THEN machine_names[operation]
                       ELSE << >>
        machine_name == IF category \in DOMAIN by_category
                        THEN by_category[category]
                        ELSE Upper(category) \o " Machine"
    IN  <<machine_name, category>>

SelectOperations == DOMAIN machine_names \cup {"heat_treatment"}
SelectDuties == {"light", "medium", "heavy"}
SelectMaterials == {"aluminium", "steel", "titanium"}
SelectCategories == {None, Some("")} \cup {Some(c) : c \in Categories}

InitSelect ==
    /\ mhr = <<>>
    /\ pc = "called"
    /\ call \in [fn : {"select_machine"},
                 args : [operation : SelectOperations, duty : SelectDuties,
                         material : SelectMaterials,
                         machine_category : SelectCategories]]
    /\ ret = NoRet
    /\ faults = {}
    /\ queries = <<>>
    /\ locals = <<>>

SelectMachine ==
    /\ pc = "called"
    /\ call.fn = "select_machine"
    /\ ret' = [kind |-> "ok",
               val |-> select_machine(call.args.operation, call.args.duty,
                                      call.args.material, call.args.machine_category)]
    /\ pc' = "done"
    /\ UNCHANGED <<mhr, call, faults, queries, locals>>

NextSelect == SelectMachine

SpecSelect == InitSelect /\ [][NextSelect]_vars

(***************************************************************************)
(* Reference tables (models.py) and the MHR table.  A table is the sequence *)
(* of its rows in the order a query without ORDER BY returns them.          *)
(***************************************************************************)
OperationTypeTable ==
    << [id |-> 1, operation_name |-> "Turning "],
       [id |-> 2, operation_name |-> "Heat Treatment"] >>

DutyTable ==
    << [id |-> 1, name |-> "Medium duty"],
       [id |-> 2, name |-> "heavy"] >>

MachineTable ==
    << [id |-> 1, name |-> "CNC Lathe", op_id |-> 1],
       [id |-> 2, name |-> "CNC Lathe - 3 Axis", op_id |-> 1],
       [id |-> 3, name |-> "Conventional Grinder", op_id |-> 2] >>

\* The rows the MHR table is filled from: op_type_id, duty_id, machine_id and
\* machine_hr_rate (a nullable String column).  Every machine and every kind
\* of rate for Turning / Medium duty, and one row for each other pair of
\* operation type and duty.
MhrRows ==
    [op_type_id : {1}, duty_id : {1}, machine_id : {1, 2, 3},
     machine_hr_rate : {None, Some("100"), Some("250"), Some("abc")}]
    \cup {[op_type_id |-> 1, duty_id |-> 2, machine_id |-> 2,
           machine_hr_rate |-> Some("75")],
          [op_type_id |-> 2, duty_id |-> 1, machine_id |-> 1,
           machine_hr_rate |-> Some("75")],
          [op_type_id |-> 2, duty_id |-> 2, machine_id |-> 3,
           machine_hr_rate |-> Some("75")]}

MaxRows == 2

MhrTables == UNION {[1..n -> MhrRows] : n \in 0..MaxRows}

\* The row of a table with the given id (the ORM relationship of a foreign
\* key), None when there is none.
RowById(table, id) ==
    LET rows == SelectSeq(table, LAMBDA r : r.id = id)
    IN  IF rows = <<>> THEN None ELSE Some(rows[1])

(***************************************************************************)
(* Resolver: get_machine_hour_rate.                                        *)
(***************************************************************************)
\* _norm of a str (of None it is "").
NormStr(s) ==
    LET out1 == Lower(Strip(s))
        out2 == Replace(out1, "_", " ")
        out3 == Replace(out2, "-", " ")
        out4 == CollapseSpaces(out3)
    IN  IF EndsWith(out4, " duty")
        THEN SubSeq(out4, 1, Len(out4) - Len(" duty"))
        ELSE out4

\* func.lower(func.trim(column)) and operation.strip().lower().
TrimLowerStr(s) == Lower(Strip(s))

\* The strings the lookup is run on, and NormStr and TrimLowerStr of each,
\* computed once.
OperationArgs == {"turning", "heat_treatment"}
DutyNameArgs == {"medium", "Heavy-Duty"}
LookupStrings ==
    {OperationTypeTable[k].operation_name : k \in DOMAIN OperationTypeTable}
    \cup {DutyTable[k].name : k \in DOMAIN DutyTable}
    \cup {MachineTable[k].name : k \in DOMAIN MachineTable}
    \cup OperationArgs \cup DutyNameArgs \cup {order[k] : k \in DOMAIN order}
NormTable == [s \in LookupStrings |-> NormStr(s)]
TrimLowerTable == [s \in LookupStrings |-> TrimLowerStr(s)]
Norm(s) == NormTable[s]
TrimLower(s) == TrimLowerTable[s]

Digits == "0123456789"
IsDigits(s) == s # "" /\ \A i \in 1..Len(s) : Contains(Chr(s, i), Digits)
DigitValue(c) == (CHOOSE i \in 1..Len(Digits) : Chr(Digits, i) = c) - 1

RECURSIVE DigitsValue(_)
DigitsValue(s) ==
    IF s = "" THEN 0
    ELSE 10 * DigitsValue(SubSeq(s, 1, Len(s) - 1)) + DigitValue(Chr(s, Len(s)))

\* float(s) of a str: the number, or None for a ValueError.
Float(s) == IF IsDigits(s) THEN Some(DigitsValue(s)) ELSE None

\* Lines 281-286: the operation type by name.
ResolveOpId(operation) ==
    LET rows == SelectSeq(OperationTypeTable,
                          LAMBDA r : TrimLower(r.operation_name) = TrimLower(operation))
    IN  IF rows = <<>> THEN None ELSE Some(rows[1].id)

\* _resolve_duty_id
ResolveDutyId(d) ==
    LET d_norm == Norm(d)
        rows == SelectSeq(DutyTable, LAMBDA du : Norm(du.name) = d_norm)
    IN  IF d_norm = "" THEN None
        ELSE IF rows = <<>> THEN None ELSE Some(rows[1].id)

\* The lookup by ids reading the last row of the triple instead of the first.
IdTierLast(operation, duty, db, machine_id, op_type_id, duty_id) ==
    LET op_id == IF op_type_id = None /\ operation # ""
                 THEN ResolveOpId(operation) ELSE op_type_id
        du_id == IF duty_id # None THEN duty_id ELSE ResolveDutyId(duty)
        m_id == machine_id
    IN  IF op_id # None /\ du_id # None /\ m_id # None
        THEN LET recs == SelectSeq(db, LAMBDA r : /\ r.op_type_id = op_id[1]
                                                  /\ r.duty_id = du_id[1]
                                                  /\ r.machine_id = m_id[1])
             IN  IF recs # <<>> /\ recs[Len(recs)].machine_hr_rate # None
                 THEN Float(recs[Len(recs)].machine_hr_rate[1])
                 ELSE None
        ELSE None

\* Lines 278-304: the lookup by ids.  The rate, or None when the tier returns
\* nothing (no ids, no row, no rate, or float() raising, which is swallowed).
IdTier(operation, duty, db, machine_id, op_type_id, duty_id) ==
    LET op_id == IF op_type_id = None /\ operation # ""
                 THEN ResolveOpId(operation) ELSE op_type_id
        du_id == IF duty_id # None THEN duty_id ELSE ResolveDutyId(duty)
        m_id == machine_id
    IN  IF op_id # None /\ du_id # None /\ m_id # None
        THEN LET recs == SelectSeq(db, LAMBDA r : /\ r.op_type_id = op_id[1]
                                                  /\ r.duty_id = du_id[1]
                                                  /\ r.machine_id = m_id[1])
             IN  IF recs # <<>> /\ recs[1].machine_hr_rate # None
                 THEN Float(recs[1].machine_hr_rate[1])
                 ELSE None
        ELSE None

\* Lines 315-322: the MHR rows joined to their operation type, duty and
\* machine, of the operation asked for.
Candidates(operation, db) ==
    SelectSeq(db, LAMBDA r :
        /\ RowById(OperationTypeTable, r.op_type_id) # None
        /\ RowById(DutyTable, r.duty_id) # None
        /\ RowById(MachineTable, r.machine_id) # None
        /\ TrimLower(RowById(OperationTypeTable, r.op_type_id)[1].operation_name)
              = TrimLower(operation))

\* Lines 334-339.
Score(rec_machine, machine_norm) ==
    IF rec_machine = machine_norm THEN 2
    ELSE IF /\ rec_machine # "" /\ machine_norm # ""
            /\ (Contains(rec_machine, machine_norm) \/ Contains(machine_norm, rec_machine))
    THEN 1
    ELSE 0

RECURSIVE Scan(_, _, _, _, _, _, _)
\* Lines 326-346: the loop over the candidates from the i-th on; best is None
\* or <<rec>>.
Scan(candidates, i, best, best_score, op_norm, duty_norm, machine_norm) ==
    IF i > Len(candidates) THEN best
    ELSE LET rec == candidates[i]
             rec_op == Norm(RowById(OperationTypeTable, rec.op_type_id)[1].operation_name)
             rec_duty == Norm(RowById(DutyTable, rec.duty_id)[1].name)
         IN  IF rec_op # op_norm \/ rec_duty # duty_norm
             THEN Scan(candidates, i + 1, best, best_score, op_norm, duty_norm, machine_norm)
             ELSE LET rec_machine == Norm(RowById(MachineTable, rec.machine_id)[1].name)
                      score == Score(rec_machine, machine_norm)
                      best2 == IF score > best_score THEN Some(rec) ELSE best
                      best_score2 == IF score > best_score THEN score ELSE best_score
                  IN  IF best_score2 = 2 THEN best2
                      ELSE Scan(candidates, i + 1, best2, best_score2,
                                op_norm, duty_norm, machine_norm)

\* Lines 308-355: the lookup by names.  The rate, or None when the tier
\* returns nothing.
NameTier(operation, duty, machine_name, db) ==
    LET best == Scan(Candidates(operation, db), 1, None, 0 - 1,
                     Norm(operation), Norm(duty), Norm(machine_name))
    IN  IF best # None /\ best[1].machine_hr_rate # None
        THEN Float(best[1].machine_hr_rate[1])
        ELSE None

\* get_machine_hour_rate: the rate, or the ValueError "MHR not configured".
get_machine_hour_rate(operation, duty, machine_name, db, machine_id, op_type_id, duty_id) ==
    LET by_id == IdTier(operation, duty, db, machine_id, op_type_id, duty_id) IN
    IF by_id # None THEN [kind |-> "ok", val |-> by_id[1]]
    ELSE LET by_name == NameTier(operation, duty, machine_name, db) IN
         IF by_name # None THEN [kind |-> "ok", val |-> by_name[1]]
         ELSE [kind |-> "ValueError"]

\* Inputs: the machine by name, with or without its id, and every way of
\* giving or leaving out the operation type id and the duty id.
MachineArgs ==
    UNION {[machine_name : {m.name}, machine_id : {None, Some(m.id)}] :
              m \in {MachineTable[k] : k \in DOMAIN MachineTable}}

MhrArgs ==
    {[operation |-> o, duty |-> d, machine_name |-> m.machine_name,
      machine_id |-> m.machine_id, op_type_id |-> oid, duty_id |-> did] :
        o \in OperationArgs,
        d \in DutyNameArgs,
        m \in MachineArgs,
        oid \in {None} \cup {Some(OperationTypeTable[k].id) : k \in DOMAIN OperationTypeTable},
        did \in {None} \cup {Some(DutyTable[k].id) : k \in DOMAIN DutyTable}}

InitMHR ==
    /\ mhr \in MhrTables
    /\ pc = "called"
    /\ call \in [fn : {"get_machine_hour_rate"}, args : MhrArgs]
    /\ ret = NoRet
    /\ faults = {}
    /\ queries = <<>>
    /\ locals = <<>>

GetMachineHourRate ==
    /\ pc = "called"
    /\ call.fn = "get_machine_hour_rate"
    /\ ret' = get_machine_hour_rate(call.args.operation, call.args.duty,
                                    call.args.machine_name, mhr, call.args.machine_id,
                                    call.args.op_type_id, call.args.duty_id)
    /\ pc' = "done"
    /\ UNCHANGED <<mhr, call, faults, queries, locals>>

NextMHR == GetMachineHourRate

SpecMHR == InitMHR /\ [][NextMHR]_vars

(***************************************************************************)
(* Resolver: get_machine_hour_rate on a session whose queries may fail.    *)
(* A block of code ends in one of                                          *)
(*   [kind |-> "return", val |-> rate, queries |-> issued]                 *)
(*   [kind |-> "fall", queries |-> issued]         (runs off its end)      *)
(*   [kind |-> "raise", exc |-> name, queries |-> issued]                  *)
(***************************************************************************)
QueryNames == {"operation_type", "duties", "mhr_by_ids", "candidates"}

\* db.query(...)....first() / .all(): the rows, or the session's error.
Query(name, rows, failing) ==
    IF name \in failing THEN [kind |-> "raise", exc |-> "QueryError"]
    ELSE [kind |-> "rows", rows |-> rows]

\* A try without its except clause.
ExceptNone(block) == block

\* try: block / except Exception: pass
ExceptPass(block) ==
    IF block.kind = "raise" THEN [kind |-> "fall", queries |-> block.queries]
    ELSE block

\* .first() of a query for an id: the id of the first row, None without rows.
FirstId(rows) == IF rows = <<>> THEN None ELSE Some(rows[1].id)

\* Lines 292-302: the rate of the record found by ids.
IdTierRate(recQ, issued) ==
    IF recQ.kind = "raise"
    THEN [kind |-> "raise", exc |-> recQ.exc, queries |-> issued]
    ELSE IF recQ.rows # <<>> /\ recQ.rows[1].machine_hr_rate # None
    THEN IF Float(recQ.rows[1].machine_hr_rate[1]) = None
         THEN [kind |-> "raise", exc |-> "FloatError", queries |-> issued]
         ELSE [kind |-> "return", val |-> Float(recQ.rows[1].machine_hr_rate[1])[1],
               queries |-> issued]
    ELSE [kind |-> "fall", queries |-> issued]

\* Lines 284-291: the query by the three ids, issued when all are known.
IdTierRecord(db, op_id, du_id, machine_id, issued, failing) ==
    IF op_id # None /\ du_id # None /\ machine_id # None
    THEN IdTierRate(Query("mhr_by_ids",
                          SelectSeq(db, LAMBDA r : /\ r.op_type_id = op_id[1]
                                                   /\ r.duty_id = du_id[1]
                                                   /\ r.machine_id = machine_id[1]),
                          failing),
                    issued \o <<"mhr_by_ids">>)
    ELSE [kind |-> "fall", queries |-> issued]

\* Lines 264-275, _resolve_duty_id once its query is answered: it returns
\* None when the query fails.
DutyOnSession(d_norm, duQ) ==
    IF duQ.kind = "rows"
    THEN FirstId(SelectSeq(duQ.rows, LAMBDA du : Norm(du.name) = d_norm))
    ELSE None

\* Line 282 and what follows it, the operation type id being resolved.
IdTierDuty(duty, db, machine_id, op_id, duty_id, issued, failing) ==
    IF duty_id # None
    THEN IdTierRecord(db, op_id, duty_id, machine_id, issued, failing)
    ELSE IF Norm(duty) = ""
    THEN IdTierRecord(db, op_id, None, machine_id, issued, failing)
    ELSE IdTierRecord(db, op_id, DutyOnSession(Norm(duty), Query("duties", DutyTable, failing)),
                      machine_id, issued \o <<"duties">>, failing)

\* Lines 279-281 once the query for the operation type is answered.
IdTierOp(opQ, duty, db, machine_id, duty_id, failing) ==
    IF opQ.kind = "raise"
    THEN [kind |-> "raise", exc |-> opQ.exc, queries |-> <<"operation_type">>]
    ELSE IdTierDuty(duty, db, machine_id, FirstId(opQ.rows), duty_id,
                    <<"operation_type">>, failing)

\* Lines 279-302, the body of the first try.
IdTierBody(operation, duty, db, machine_id, op_type_id, duty_id, failing) ==
    IF op_type_id = None /\ operation # ""
    THEN IdTierOp(Query("operation_type",
                        SelectSeq(OperationTypeTable,
                                  LAMBDA r : TrimLower(r.operation_name) = TrimLower(operation)),
                        failing),
                  duty, db, machine_id, duty_id, failing)
    ELSE IdTierDuty(duty, db, machine_id, op_type_id, duty_id, <<>>, failing)

\* Lines 345-352: the rate of the best candidate.
NameTierRate(best, issued) ==
    IF best # None /\ best[1].machine_hr_rate # None
           /\ Float(best[1].machine_hr_rate[1]) # None
    THEN [kind |-> "return", val |-> Float(best[1].machine_hr_rate[1])[1],
          queries |-> issued]
    ELSE [kind |-> "fall", queries |-> issued]

\* Lines 324-343 once the query for the candidates is answered.
NameTierScan(candQ, operation, duty, machine_name) ==
    IF candQ.kind = "raise"
    THEN [kind |-> "raise", exc |-> candQ.exc, queries |-> <<"candidates">>]
    ELSE NameTierRate(Scan(candQ.rows, 1, None, 0 - 1,
                           Norm(operation), Norm(duty), Norm(machine_name)),
                      <<"candidates">>)

\* Lines 309-352, the body of the second try.
NameTierBody(operation, duty, machine_name, db, failing) ==
    NameTierScan(Query("candidates", Candidates(operation, db), failing),
                 operation, duty, machine_name)

\* Lines 306-360, after a first try that ran off its end: the second try,
\* then the raise of "MHR not configured".
SecondTry(t1, t2) ==
    IF t2.kind = "return"
    THEN [ret |-> [kind |-> "ok", val |-> t2.val], queries |-> t1.queries \o t2.queries]
    ELSE IF t2.kind = "raise"
    THEN [ret |-> [kind |-> t2.exc], queries |-> t1.queries \o t2.queries]
    ELSE [ret |-> [kind |-> "ValueError"], queries |-> t1.queries \o t2.queries]

\* Lines 277-360, the first try being run.
FirstTry(t1, operation, duty, machine_name, db, failing) ==
    IF t1.kind = "return"
    THEN [ret |-> [kind |-> "ok", val |-> t1.val], queries |-> t1.queries]
    ELSE IF t1.kind = "raise"
    THEN [ret |-> [kind |-> t1.exc], queries |-> t1.queries]
    ELSE SecondTry(t1, ExceptPass(NameTierBody(operation, duty, machine_name, db, failing)))

\* Lines 277-360 on a session where the queries of failing fail: what the
\* call returns or raises, and the queries it issued.
LookupOnSession(operation, duty, machine_name, db, machine_id, op_type_id, duty_id, failing) ==
    FirstTry(ExceptPass(IdTierBody(operation, duty, db, machine_id, op_type_id,
                                   duty_id, failing)),
             operation, duty, machine_name, db, failing)

MaxFaultRows == 1

InitFaults ==
    /\ mhr \in {t \in MhrTables : Len(t) <= MaxFaultRows}
    /\ pc = "called"
    /\ call \in [fn : {"get_machine_hour_rate"}, args : MhrArgs]
    /\ ret = NoRet
    /\ faults \in SUBSET QueryNames
    /\ queries = <<>>
    /\ locals = <<>>

GetMachineHourRateOnSession ==
    /\ pc = "called"
    /\ call.fn = "get_machine_hour_rate"
    /\ LET out == LookupOnSession(call.args.operation, call.args.duty,
                                  call.args.machine_name, mhr, call.args.machine_id,
                                  call.args.op_type_id, call.args.duty_id, faults)
       IN  ret' = out.ret /\ queries' = out.queries
    /\ pc' = "done"
    /\ UNCHANGED <<mhr, call, faults, locals>>

NextFaults == GetMachineHourRateOnSession

SpecFaults == InitFaults /\ [][NextFaults]_vars

(***************************************************************************)
(* Service: get_machine_details and calculate_man_hours.                   *)
(***************************************************************************)
\* The dict of the first machine with exactly this name, or the ValueError
\* "Machine with name ... not found".
get_machine_details(machine_name) ==
    LET rows == SelectSeq(MachineTable, LAMBDA m : m.name = machine_name)
    IN  IF rows = <<>> THEN [kind |-> "ValueError"]
        ELSE [kind |-> "ok",
              val |-> [id |-> rows[1].id, name |-> rows[1].name,
                       operation_type_id |-> rows[1].op_id]]

\* Hours per unit, in hundredths of an hour.
MAN_HOURS_MATRIX ==
    [turning |-> [light |-> 25, medium |-> 50, heavy |-> 100],
     milling |-> [light |-> 50, medium |-> 100, heavy |-> 200],
     drilling |-> [light |-> 15, medium |-> 30, heavy |-> 60],
     grinding |-> [light |-> 30, medium |-> 60, heavy |-> 120],
     boring |-> [light |-> 40, medium |-> 80, heavy |-> 150],
     heat_treatment |-> [light |-> 50, medium |-> 100, heavy |-> 200],
     welding |-> [light |-> 30, medium |-> 60, heavy |-> 120],
     surface_treatment |-> [light |-> 20, medium |-> 40, heavy |-> 80]]

DefaultManHours == 50

\* override is None or <<hours>>; 0 hours is as good as None ("if override:").
calculate_man_hours(operation, duty, override) ==
    IF override # None /\ override[1] # 0 THEN override[1]
    ELSE IF operation \in DOMAIN MAN_HOURS_MATRIX
            /\ duty \in DOMAIN MAN_HOURS_MATRIX[operation]
    THEN MAN_HOURS_MATRIX[operation][duty]
    ELSE DefaultManHours

(***************************************************************************)
(* Handlers: POST /cost-estimation/calculate and /quick-estimate.          *)
(* A handler reads the database twice: the machine by name, then the       *)
(* machine hour rate.  First is the code up to the second read: it ends    *)
(* in a response (an HTTP error) or in the handler's local variables.      *)
(* Second is the rest: the set of responses it can end in.                 *)
(***************************************************************************)
HttpError(status) == [kind |-> "response", val |-> [status |-> status]]

\* get_wage_rate of each registered machine's name, computed once.
WageTable ==
    [n \in {MachineTable[k].name : k \in DOMAIN MachineTable} |-> get_wage_rate(n)]

\* Lines 89-134.  request.dimensions holds the dimensions that are not None.
CalculateFirst(request) ==
    LET md == get_machine_details(request.machine_name)
        dims == request.dimensions
    IN  IF md.kind = "ValueError" THEN HttpError(404)
        ELSE
        LET machine_details == md.val
            machine_name == machine_details.name
            machine_category == determine_machine_category(machine_name)
            round == "diameter" \in DOMAIN dims
            rect == ~round /\ "breadth" \in DOMAIN dims /\ "height" \in DOMAIN dims
            shape == IF round THEN "round" ELSE "rectangular"
            dimensions_dict == IF round
                               THEN Restrict(dims, {"diameter", "length"})
                               ELSE Restrict(dims, {"length", "breadth", "height"})
        IN  IF ~round /\ ~rect THEN HttpError(400)
            ELSE
            LET duty == IF request.duty_category # None
                        THEN [kind |-> "ok", val |-> request.duty_category[1]]
                        ELSE determine_duty_category(shape, dimensions_dict,
                                                     request.material,
                                                     request.operation_type)
            IN  IF duty.kind # "ok" THEN HttpError(500)
                ELSE [kind |-> "locals",
                      val |-> [machine_details |-> machine_details,
                               machine_name |-> machine_name,
                               machine_category |-> machine_category,
                               shape |-> shape,
                               dimensions_dict |-> dimensions_dict,
                               duty |-> duty.val]]

\* cost_breakdown.pop('total_cost', None)
PopTotalCost(d) == [k \in DOMAIN d \ {"total_cost"} |-> d[k]]

\* Lines 136-219.
CalculateSecond(request, l, db) ==
    LET machine_hour_rate ==
            get_machine_hour_rate(request.operation_type, l.duty, l.machine_name, db,
                                  Some(l.machine_details.id),
                                  Some(l.machine_details.operation_type_id), None)
    IN  IF machine_hour_rate.kind = "ValueError" THEN {HttpError(400).val}
        ELSE
        LET wage_rate == WageTable[l.machine_name]
            man_hours == request.man_hours_per_unit
        IN  {[status |-> 200,
              duty_category |-> l.duty,
              selected_machine |-> l.machine_details,
              machine_category |-> l.machine_category,
              shape |-> l.shape,
              dimensions |-> l.dimensions_dict,
              cost_breakdown |-> PopTotalCost(cost_breakdown),
              material |-> request.material,
              operation_type |-> request.operation_type] :
                cost_breakdown \in calculate_costs(man_hours, machine_hour_rate.val,
                                                   wage_rate, 1)}

\* Lines 233-246.
QuickFirst(request) ==
    LET selected == select_machine(request.operation, request.duty, "steel", None)
        machine_name == selected[1]
        md == get_machine_details(machine_name)
    IN  IF md.kind = "ValueError" THEN HttpError(404)
        ELSE [kind |-> "locals",
              val |-> [machine_details |-> md.val,
                       machine_name |-> machine_name,
                       machine_category |-> selected[2]]]

\* Lines 248-277.
QuickSecond(request, l, db) ==
    LET machine_hour_rate ==
            get_machine_hour_rate(request.operation, request.duty, l.machine_name, db,
                                  Some(l.machine_details.id),
                                  Some(l.machine_details.operation_type_id), None)
    IN  IF machine_hour_rate.kind = "ValueError" THEN {HttpError(400).val}
        ELSE
        LET wage_rate == WageTable[l.machine_name]
            man_hours == calculate_man_hours(request.operation, request.duty, None)
        IN  {[status |-> 200,
              machine |-> l.machine_name,
              duty |-> request.duty,
              quantity |-> request.quantity,
              unit_cost |-> cost_breakdown.unit_cost,
              total_cost |-> cost_breakdown.total_cost,
              details |-> cost_breakdown] :
                cost_breakdown \in calculate_costs(man_hours, machine_hour_rate.val,
                                                   wage_rate, request.quantity)}

\* The requests in flight, each served by its own thread.
Workers == {"a", "b"}

\* Requests: a round part of steel, 100 x 300 mm, half an hour per unit, on
\* each registered machine for each operation; one with a duty override;
\* an unknown machine; dimensions that are neither round nor rectangular;
\* quick estimates.
RoundPart == [diameter |-> RoundLightDiameter, length |-> RoundLightLength]

CalculateRequests ==
    [machine_name : {"CNC Lathe", "Conventional Grinder"},
     operation_type : OperationArgs,
     duty_category : {None},
     dimensions : {RoundPart},
     material : {"steel"},
     man_hours_per_unit : {DefaultManHours}]
    \cup {[machine_name |-> "Conventional Grinder", operation_type |-> "turning",
           duty_category |-> Some("heavy"), dimensions |-> RoundPart,
           material |-> "steel", man_hours_per_unit |-> DefaultManHours],
          [machine_name |-> "EDM", operation_type |-> "turning",
           duty_category |-> None, dimensions |-> RoundPart,
           material |-> "steel", man_hours_per_unit |-> DefaultManHours],
          [machine_name |-> "CNC Lathe", operation_type |-> "turning",
           duty_category |-> None, dimensions |-> Restrict(RoundPart, {"length"}),
           material |-> "steel", man_hours_per_unit |-> DefaultManHours]}

QuickRequests ==
    {[operation |-> "turning", duty |-> "medium", quantity |-> MaxQuantity],
     [operation |-> "heat_treatment", duty |-> "medium", quantity |-> MaxQuantity]}

ApiCalls ==
    [fn : {"calculate"}, args : CalculateRequests]
    \cup [fn : {"quick_estimate"}, args : QuickRequests]

\* The first part of the handler of each request, computed once.
FirstTable ==
    [c \in ApiCalls |-> IF c.fn = "calculate"
                        THEN CalculateFirst(c.args)
                        ELSE QuickFirst(c.args)]

MaxApiRows == 1

NoLocals == [kind |-> "none"]

\* One frame for all requests, as local variables kept on a shared object.
SharedFrame(w) == CHOOSE v \in Workers : TRUE

\* Where a request keeps its local variables: in its own frame.
Frame(w) == w

InitApi ==
    /\ mhr \in {t \in MhrTables : Len(t) <= MaxApiRows}
    /\ pc = [w \in Workers |-> "received"]
    /\ call \in [Workers -> ApiCalls]
    /\ ret = [w \in Workers |-> NoRet]
    /\ faults = {}
    /\ queries = <<>>
    /\ locals = [w \in Workers |-> NoLocals]

\* The handler up to its second read of the database.
HandlerFirst(w, first) ==
    /\ IF first.kind = "response"
       THEN /\ ret' = [ret EXCEPT ![w] = first.val]
            /\ pc' = [pc EXCEPT ![w] = "done"]
            /\ UNCHANGED locals
       ELSE /\ locals' = [locals EXCEPT ![Frame(w)] = first.val]
            /\ pc' = [pc EXCEPT ![w] = "rate"]
            /\ UNCHANGED ret
    /\ UNCHANGED <<mhr, call, faults, queries>>

\* The rest of the handler; its local variables are gone when it returns.
HandlerSecond(w, responses) ==
    /\ \E r \in responses : ret' = [ret EXCEPT ![w] = r]
    /\ pc' = [pc EXCEPT ![w] = "done"]
    /\ locals' = [locals EXCEPT ![Frame(w)] = NoLocals]
    /\ UNCHANGED <<mhr, call, faults, queries>>

CalculateStart(w) ==
    /\ pc[w] = "received"
    /\ call[w].fn = "calculate"
    /\ HandlerFirst(w, FirstTable[call[w]])

CalculateRate(w) ==
    /\ pc[w] = "rate"
    /\ call[w].fn = "calculate"
    /\ locals[Frame(w)] # NoLocals
    /\ HandlerSecond(w, CalculateSecond(call[w].args, locals[Frame(w)], mhr))

QuickStart(w) ==
    /\ pc[w] = "received"
    /\ call[w].fn = "quick_estimate"
    /\ HandlerFirst(w, FirstTable[call[w]])

QuickRate(w) ==
    /\ pc[w] = "rate"
    /\ call[w].fn = "quick_estimate"
    /\ locals[Frame(w)] # NoLocals
    /\ HandlerSecond(w, QuickSecond(call[w].args, locals[Frame(w)], mhr))

\* The thread takes the next request.
NextRequest(w) ==
    /\ pc[w] = "done"
    /\ \E c \in ApiCalls : call' = [call EXCEPT ![w] = c]
    /\ pc' = [pc EXCEPT ![w] = "received"]
    /\ ret' = [ret EXCEPT ![w] = NoRet]
    /\ UNCHANGED <<mhr, faults, queries, locals>>

NextApi ==
    \E w \in Workers :
        \/ CalculateStart(w)
        \/ CalculateRate(w)
        \/ QuickStart(w)
        \/ QuickRate(w)
        \/ NextRequest(w)

SpecApi == InitApi /\ [][NextApi]_vars

(***************************************************************************)
(* Properties of the calculator.                                           *)
(***************************************************************************)
CalcDone == pc = "done" /\ call.fn = "calculate_costs"

\* The formulas of the contract in 1/10000 of a currency unit, from the
\* arguments of the call.
FormulaD ==
    call.args.man_hours * (call.args.machine_hour_rate + call.args.wage_rate) * 100
FormulaOH == call.args.wage_rate * 10000
FormulaProfit == (FormulaD + FormulaOH) \div 10
FormulaPF == (2 * FormulaD) \div 100
FormulaUnitCost == FormulaD + FormulaOH + FormulaProfit + FormulaPF
FormulaTotalCost == FormulaUnitCost * call.args.quantity
FormulaOutsourcing == (call.args.machine_hour_rate + 2 * call.args.wage_rate) * 10000

\* cents is x (in 1/10000) rounded to the nearest cent.
NearestCent(cents, x) == (cents * 100 - x) \in (0 - 50)..50

ExampleCall ==
    /\ call.args.man_hours = 50
    /\ call.args.machine_hour_rate = 100
    /\ call.args.wage_rate = 100
    /\ call.args.quantity = 1

\* C1 as stated: every returned field equals its formula exactly.
C1_ExactFormulas ==
    CalcDone =>
        /\ ret.val.basic_cost_per_unit * 100 = FormulaD
        /\ ret.val.overheads_per_unit * 100 = FormulaOH
        /\ ret.val.profit_per_unit * 100 = FormulaProfit
        /\ ret.val.packing_forwarding_per_unit * 100 = FormulaPF
        /\ ret.val.unit_cost * 100 = FormulaUnitCost
        /\ ret.val.total_cost * 100 = FormulaTotalCost
        /\ ret.val.outsourcing_mhr * 100 = FormulaOutsourcing

\* C1 (amended): calculate_costs returns each field as its formula
\* (D = A*(B+C), OH = C, Profit = 0.10*(D+OH), PF = 0.02*D,
\* UnitCost = D+OH+Profit+PF, TotalCost = UnitCost*q, Outsourcing = B+2C)
\* rounded to the nearest cent, each rounded from the unrounded values; the
\* value is exact when the formula gives whole cents, and A=0.5, B=100,
\* C=100, q=1 gives D=100, OH=100, Profit=20, PF=2, UnitCost=222,
\* OutsourcingMHR=300.
C1_RoundedFormulas ==
    CalcDone =>
        /\ ret.kind = "ok"
        /\ NearestCent(ret.val.basic_cost_per_unit, FormulaD)
        /\ NearestCent(ret.val.overheads_per_unit, FormulaOH)
        /\ NearestCent(ret.val.profit_per_unit, FormulaProfit)
        /\ NearestCent(ret.val.packing_forwarding_per_unit, FormulaPF)
        /\ NearestCent(ret.val.unit_cost, FormulaUnitCost)
        /\ NearestCent(ret.val.total_cost, FormulaTotalCost)
        /\ NearestCent(ret.val.outsourcing_mhr, FormulaOutsourcing)
        /\ ExampleCall =>
              /\ ret.val.basic_cost_per_unit = 10000
              /\ ret.val.overheads_per_unit = 10000
              /\ ret.val.profit_per_unit = 2000
              /\ ret.val.packing_forwarding_per_unit = 200
              /\ ret.val.unit_cost = 22200
              /\ ret.val.outsourcing_mhr = 30000

C1_Witness ==
    /\ CalcDone
    /\ ExampleCall
    /\ ret.val.unit_cost = 22200

\* C14: the overheads per unit are 100% of the wage rate times the
\* man-hours, OH = C x A (to the cent), for every man_hours A and wage_rate C.
C14_OverheadsWageTimesHours ==
    CalcDone =>
        NearestCent(ret.val.overheads_per_unit,
                    call.args.wage_rate * call.args.man_hours * 100)

(***************************************************************************)
(* Properties of the classifier.                                           *)
(***************************************************************************)
DutyDone == pc = "done" /\ call.fn = "determine_duty_category"

Rank(d) == CHOOSE i \in 1..3 : <<"light", "medium", "heavy">>[i] = d
DutyOfRank(i) == <<"light", "medium", "heavy">>[i]
OneUp(d) == DutyOfRank(IF Rank(d) = 3 THEN 3 ELSE Rank(d) + 1)

ArgMaterial == Lower(Strip(call.args.material))
ArgOperation == Lower(Strip(call.args.operation))
Demanding == {"heat_treatment", "welding"}

IsRect ==
    /\ call.args.shape = "rectangular"
    /\ {"length", "breadth", "height"} \subseteq DOMAIN call.args.dimensions
IsRound ==
    /\ call.args.shape = "round"
    /\ {"diameter", "length"} \subseteq DOMAIN call.args.dimensions

MaxDim ==
    LET d == call.args.dimensions IN
    CHOOSE m \in {d.length, d.breadth, d.height} :
        \A x \in {d.length, d.breadth, d.height} : x <= m

\* The geometric base as the contract states it.
StatedBase ==
    IF IsRect
    THEN IF MaxDim <= 750 THEN "light" ELSE IF MaxDim <= 1500 THEN "medium" ELSE "heavy"
    ELSE LET d == call.args.dimensions IN
         IF d.diameter <= 100 /\ d.length <= 300 THEN "light"
         ELSE IF d.diameter <= 300 /\ d.length <= 1200 THEN "medium"
         ELSE "heavy"

\* C2: for aluminium and an operation other than heat_treatment and welding,
\* a rectangular part with length, breadth and height is light up to a
\* largest dimension of 750, medium up to 1500, heavy above; a round part
\* with diameter and length is light up to diameter 100 and length 300,
\* medium up to diameter 300 and length 1200, heavy otherwise.
C2_GeometricBase ==
    (DutyDone /\ ArgMaterial = "aluminium" /\ ArgOperation \notin Demanding
        /\ (IsRect \/ IsRound)) =>
        /\ ret = [kind |-> "ok", val |-> StatedBase]
        /\ (IsRect /\ MaxDim = 750) => ret.val = "light"
        /\ (IsRect /\ MaxDim = 751) => ret.val = "medium"
        /\ (IsRect /\ MaxDim = 1500) => ret.val = "medium"
        /\ (IsRect /\ MaxDim = 1501) => ret.val = "heavy"
        /\ (IsRound /\ call.args.dimensions.diameter = 100
                    /\ call.args.dimensions.length = 300) => ret.val = "light"
        /\ (IsRound /\ call.args.dimensions.diameter = 101
                    /\ call.args.dimensions.length = 300) => ret.val = "medium"

C2_Witness ==
    /\ DutyDone /\ ArgMaterial = "aluminium" /\ ArgOperation = "turning"
    /\ IsRect /\ MaxDim = 750
    /\ ret = [kind |-> "ok", val |-> "light"]

\* The dimension dicts with the keys of d and no dimension smaller than in d.
NotSmaller(d) ==
    LET up(k) == IF k \in DOMAIN d THEN {x \in DimGrid[k] : x >= d[k]} ELSE {0}
    IN  {Restrict([diameter |-> a, length |-> b, breadth |-> c, height |-> e],
                  DOMAIN d) :
            a \in up("diameter"), b \in up("length"),
            c \in up("breadth"), e \in up("height")}

\* C3: with shape, material and operation fixed, a rectangular (length,
\* breadth, height) or round (diameter, length) part none of whose dimensions
\* is smaller never gets a lower duty.
C3_MonotonicInSize ==
    (DutyDone /\ (IsRect \/ IsRound)) =>
        /\ ret.kind = "ok"
        /\ LET mat == ArgMaterial
               op == ArgOperation
               rank == Rank(ret.val)
           IN  \A d2 \in NotSmaller(call.args.dimensions) :
                  LET r2 == DutyOf(call.args.shape, d2, mat, op)
                  IN  r2.kind = "ok" /\ Rank(r2.val) >= rank

C3_Witness ==
    /\ DutyDone /\ IsRound /\ ret.kind = "ok" /\ ret.val = "light"
    /\ \E d2 \in NotSmaller(call.args.dimensions) :
          DutyOf(call.args.shape, d2, ArgMaterial, ArgOperation).val = "heavy"

\* C4: for the same shape, dimensions and operation, steel and titanium
\* never get a lower duty than aluminium.
C4_MaterialOrdering ==
    (DutyDone /\ ArgMaterial \in {"steel", "titanium"}) =>
        LET a == determine_duty_category(call.args.shape, call.args.dimensions,
                                         "aluminium", call.args.operation)
        IN  /\ a.kind = ret.kind
            /\ ret.kind = "ok" => Rank(ret.val) >= Rank(a.val)

C4_Witness ==
    /\ DutyDone /\ ArgMaterial = "steel" /\ ret.kind = "ok" /\ ret.val = "medium"
    /\ determine_duty_category(call.args.shape, call.args.dimensions,
                               "aluminium", call.args.operation).val = "light"

\* C5 as stated: steel moves every base below heavy one level up.
C5_SteelBumpsEveryBase ==
    (DutyDone /\ (IsRect \/ IsRound) /\ ArgOperation \notin Demanding
        /\ ArgMaterial = "steel") =>
        ret = [kind |-> "ok", val |-> OneUp(StatedBase)]

\* C5 (amended): with an operation that is neither heat_treatment nor
\* welding, steel raises only a light base (light -> medium, medium ->
\* medium, heavy -> heavy) and titanium gives heavy for every base.
C5_MaterialAdjustment ==
    (DutyDone /\ (IsRect \/ IsRound) /\ ArgOperation \notin Demanding) =>
        /\ ArgMaterial = "steel" =>
              ret = [kind |-> "ok",
                     val |-> IF StatedBase = "light" THEN "medium" ELSE StatedBase]
        /\ ArgMaterial = "titanium" => ret = [kind |-> "ok", val |-> "heavy"]

C5_Witness ==
    /\ DutyDone /\ (IsRect \/ IsRound) /\ ArgOperation \notin Demanding
    /\ ArgMaterial = "steel" /\ StatedBase = "medium"
    /\ ret = [kind |-> "ok", val |-> "medium"]

OtherOperations == {Lower(Strip(o)) : o \in Operations} \ Demanding

\* C6 as stated: for every shape, heat_treatment and welding return exactly
\* one level above what any other operation returns.
C6_OneLevelEveryShape ==
    (DutyDone /\ ArgOperation \in Demanding /\ ret.kind = "ok") =>
        LET mat == ArgMaterial IN
        \A o \in OtherOperations :
            LET r2 == DutyOf(call.args.shape, call.args.dimensions, mat, o)
            IN  r2.kind = "ok" /\ ret.val = OneUp(r2.val)

\* C6 (amended): for a rectangular part with length, breadth and height or
\* a round part with diameter and length, heat_treatment and welding return
\* exactly one level above (saturating at heavy) what every other operation
\* returns for the same inputs, and all other operations return the same
\* duty.
C6_OperationAdjustment ==
    (DutyDone /\ (IsRect \/ IsRound)) =>
        /\ ret.kind = "ok"
        /\ LET mat == ArgMaterial
               demanding == ArgOperation \in Demanding
           IN  \A o \in OtherOperations :
                  LET r2 == DutyOf(call.args.shape, call.args.dimensions, mat, o)
                  IN  /\ r2.kind = "ok"
                      /\ ret.val = IF demanding THEN OneUp(r2.val) ELSE r2.val

C6_Witness ==
    /\ DutyDone /\ IsRect /\ ArgOperation = "welding" /\ ArgMaterial = "aluminium"
    /\ StatedBase = "medium"
    /\ ret = [kind |-> "ok", val |-> "heavy"]

(***************************************************************************)
(* Properties of the machine category.                                     *)
(***************************************************************************)
CategoryDone == pc = "done" /\ call.fn = "determine_machine_category"

\* word occurs in the machine name of the call, whatever the case.
NameHas(word) ==
    LET n == Lower(call.args.machine_name) IN
    \E i \in 0..(Len(n) - Len(word)) : SubSeq(n, i + 1, i + Len(word)) = word

\* C7: a machine name is cnc_5axis if it contains "cnc" or "precision" and
\* also "5" or "five", cnc_3axis if it contains "cnc" or "precision" and
\* neither "5" nor "five", spm if it contains neither "cnc" nor "precision"
\* but "spm" or "special", conventional otherwise, whatever the case of its
\* letters.
C7_MachineCategory ==
    CategoryDone =>
        LET cnc == NameHas("cnc") \/ NameHas("precision")
            five == NameHas("5") \/ NameHas("five")
            special == NameHas("spm") \/ NameHas("special")
        IN  /\ ret.kind = "ok"
            /\ (cnc /\ five) => ret.val = "cnc_5axis"
            /\ (cnc /\ ~five) => ret.val = "cnc_3axis"
            /\ (~cnc /\ special) => ret.val = "spm"
            /\ (~cnc /\ ~special) => ret.val = "conventional"
            /\ call.args.machine_name = "CNC Lathe - 5 Axis" => ret.val = "cnc_5axis"
            /\ call.args.machine_name = "Conventional Drill Press"
                  => ret.val = "conventional"
            /\ call.args.machine_name = "Special Purpose Mill" => ret.val = "spm"

C7_Witness ==
    /\ CategoryDone
    /\ call.args.machine_name = "Precision Grinder Five"
    /\ ret = [kind |-> "ok", val |-> "cnc_5axis"]

WageDone == pc = "done" /\ call.fn = "get_wage_rate"

\* C12: get_wage_rate of a machine name is 15000/200 = 75 per hour when the
\* name's category is conventional and 20000/200 = 100 per hour for every
\* other category (cnc_3axis, cnc_5axis, spm).
C12_WageRate ==
    WageDone =>
        LET category == determine_machine_category(call.args.machine_name)
        IN  /\ category \in {"conventional", "cnc_3axis", "cnc_5axis", "spm"}
            /\ ret.kind = "ok"
            /\ category = "conventional" => ret.val = 75 /\ ret.val * 200 = 15000
            /\ category # "conventional" => ret.val = 100 /\ ret.val * 200 = 20000

\* The wage of a special purpose machine was asked for and is 100.
C12_Witness ==
    /\ WageDone
    /\ determine_machine_category(call.args.machine_name) = "spm"
    /\ ret = [kind |-> "ok", val |-> 100]

(***************************************************************************)
(* Properties of the machine selection.                                    *)
(***************************************************************************)
SelectDone == pc = "done" /\ call.fn = "select_machine"

\* C15: the category select_machine returns with a machine name is the
\* category determine_machine_category gives that name, for names of the
\* table and for the default "{CATEGORY} Machine" names.
C15_SelectionAgreesWithCategory ==
    SelectDone =>
        determine_machine_category(ret.val[1]) = ret.val[2]

(***************************************************************************)
(* Properties of the rate lookup.                                          *)
(***************************************************************************)
MhrDone == pc = "done" /\ call.fn = "get_machine_hour_rate"

\* The names a row of the MHR table stands for.
RowOperation(r) == RowById(OperationTypeTable, r.op_type_id)[1].operation_name
RowDuty(r) == RowById(DutyTable, r.duty_id)[1].name
RowMachine(r) == RowById(MachineTable, r.machine_id)[1].name

\* The ids of a request: given directly, or found by name.
ArgOpId(a) == IF a.op_type_id # None THEN a.op_type_id ELSE ResolveOpId(a.operation)
ArgDutyId(a) == IF a.duty_id # None THEN a.duty_id ELSE ResolveDutyId(a.duty)

\* The rows that carry the triple of ids of a request, in table order; none
\* when one of the three ids does not resolve.
TripleRows(a, db) ==
    LET op_id == ArgOpId(a)
        du_id == ArgDutyId(a)
    IN  IF op_id = None \/ du_id = None \/ a.machine_id = None THEN <<>>
        ELSE SelectSeq(db, LAMBDA r : /\ r.op_type_id = op_id[1]
                                      /\ r.duty_id = du_id[1]
                                      /\ r.machine_id = a.machine_id[1])

\* A row is of the operation and duty of a request when the normalized names
\* are equal.
SameOperationAndDuty(r, a) ==
    /\ Norm(RowOperation(r)) = Norm(a.operation)
    /\ Norm(RowDuty(r)) = Norm(a.duty)

\* The score of a row's machine name against the request's: 2 equal, 1 one
\* inside the other, 0 otherwise.
StatedScore(r, a) ==
    LET rec_machine == Norm(RowMachine(r))
        machine_norm == Norm(a.machine_name)
    IN  IF rec_machine = machine_norm THEN 2
        ELSE IF Contains(rec_machine, machine_norm) \/ Contains(machine_norm, rec_machine)
        THEN 1
        ELSE 0

\* The first row, in table order, with the highest score among rows.
FirstBest(rows, a) ==
    LET top == CHOOSE t \in 0..2 :
                   /\ \E i \in DOMAIN rows : StatedScore(rows[i], a) = t
                   /\ \A i \in DOMAIN rows : StatedScore(rows[i], a) <= t
        at == CHOOSE i \in DOMAIN rows :
                   /\ StatedScore(rows[i], a) = top
                   /\ \A j \in 1..(i - 1) : StatedScore(rows[j], a) < top
    IN  rows[at]

\* A rate that is there and that float() reads.
UsableRate(r) == r.machine_hr_rate # None /\ Float(r.machine_hr_rate[1]) # None
RateOf(r) == Float(r.machine_hr_rate[1])[1]

\* C8: when no row of the MHR table carries the resolved triple of ids and no
\* row matches the requested operation, duty and machine by name, the call
\* raises the "MHR not configured" error and returns no rate.
C8_NotConfiguredWhenNoMatch ==
    MhrDone =>
        LET a == call.args
            byName == SelectSeq(mhr, LAMBDA r : /\ SameOperationAndDuty(r, a)
                                                /\ StatedScore(r, a) >= 1)
        IN  TripleRows(a, mhr) = <<>> /\ byName = <<>> => ret.kind = "ValueError"

\* C9: when the lookup by ids yields no rate, the rows of the requested
\* normalized operation and duty are scored by machine name and the call
\* returns the rate of the first row with the highest score (stated here for
\* the case where that row has a rate float() reads).
C9_FallbackBestRow ==
    MhrDone =>
        LET a == call.args
            rows == SelectSeq(mhr, LAMBDA r : SameOperationAndDuty(r, a))
            by_id == IdTier(a.operation, a.duty, mhr, a.machine_id, a.op_type_id, a.duty_id)
        IN  by_id = None /\ rows # <<>> /\ UsableRate(FirstBest(rows, a))
                => ret.kind = "ok" /\ ret.val = RateOf(FirstBest(rows, a))

\* C16: a rate the lookup by names returns comes from a row of the
\* requested operation and duty whose machine name equals the requested one
\* or is in a substring relation with it (score 1 or 2), never from a row
\* with an unrelated machine name (score 0).
C16_FallbackRowMatchesMachine ==
    MhrDone =>
        LET a == call.args
            by_id == IdTier(a.operation, a.duty, mhr, a.machine_id, a.op_type_id, a.duty_id)
        IN  by_id = None /\ ret.kind = "ok"
                => \E i \in DOMAIN mhr :
                      /\ SameOperationAndDuty(mhr[i], a)
                      /\ StatedScore(mhr[i], a) >= 1
                      /\ UsableRate(mhr[i])
                      /\ RateOf(mhr[i]) = ret.val

\* C10 as stated: when the three ids resolve and rows carry the triple, the
\* call returns the rate of the first such row provided that rate is
\* present (not None).
C10_FirstRowRatePresent ==
    MhrDone =>
        LET rows == TripleRows(call.args, mhr)
        IN  rows # <<>> /\ rows[1].machine_hr_rate # None
                => /\ ret.kind = "ok"
                   /\ Some(ret.val) = Float(rows[1].machine_hr_rate[1])

\* C10: when the three ids resolve and rows carry the triple, the call
\* returns the rate of the first such row provided that rate is present and
\* is a number float() reads, however many rows share the triple and
\* whichever row the lookup by names would choose.
C10_FirstRowRateNumeric ==
    MhrDone =>
        LET rows == TripleRows(call.args, mhr)
        IN  rows # <<>> /\ UsableRate(rows[1])
                => ret.kind = "ok" /\ ret.val = RateOf(rows[1])

\* Two rows share the triple with different rates and the call returned the
\* rate of the first of them.
C10_Witness ==
    /\ MhrDone
    /\ LET rows == TripleRows(call.args, mhr)
       IN  /\ Len(rows) = 2
           /\ UsableRate(rows[1]) /\ UsableRate(rows[2])
           /\ RateOf(rows[1]) # RateOf(rows[2])
           /\ ret.kind = "ok" /\ ret.val = RateOf(rows[1])

(***************************************************************************)
(* Properties of the rate lookup on a failing session.                     *)
(***************************************************************************)
NoRepeat(qs) == \A i, j \in DOMAIN qs : qs[i] = qs[j] => i = j

Estimate(c, db) ==
    LET first == FirstTable[c]
    IN  IF first.kind = "response" THEN {first.val}
        ELSE IF c.fn = "calculate" THEN CalculateSecond(c.args, first.val, db)
        ELSE QuickSecond(c.args, first.val, db)

\* C13: every step of an estimation request, whatever the other requests
\* are doing, leaves the MHR table as it is; a request that has ended, with
\* a result or an error, has the response its own inputs and the table
\* give, and has kept no local state.
C13_Stateless ==
    /\ [][mhr' = mhr]_vars
    /\ [](\A w \in Workers :
             pc[w] = "done" => /\ ret[w] \in Estimate(call[w], mhr)
                               /\ locals[w] = NoLocals)

\* Request a has ended with a cost breakdown while request b, a different
\* request, is between its two reads of the database.
C13_Witness ==
    /\ DOMAIN pc = Workers
    /\ pc["a"] = "done" /\ ret["a"].status = 200
    /\ pc["b"] = "rate" /\ locals["b"] # NoLocals
    /\ call["a"] # call["b"]

\* C17: a machine hour rate the /calculate handler uses for a cost
\* breakdown comes from an MHR row whose operation type is the request's
\* operation_type and whose duty is the duty used for the request, also
\* when the machine is registered under another operation type.
C17_RateOfRequestedOperation ==
    \A w \in Workers :
        (pc[w] = "done" /\ call[w].fn = "calculate" /\ ret[w].status = 200)
            => \E i \in DOMAIN mhr :
                  /\ Norm(RowOperation(mhr[i])) = Norm(call[w].args.operation_type)
                  /\ Norm(RowDuty(mhr[i])) = Norm(ret[w].duty_category)
                  /\ UsableRate(mhr[i])
                  /\ RateOf(mhr[i]) * CentsPerUnit
                        = ret[w].cost_breakdown.machine_hour_rate

====
